---- MODULE Spec2Model ----
(***************************************************************************)
(* Model of gourde.Gourde (src/gourde/gourde.py): the configuration state  *)
(* of one instance, its setup call, the healthy / ready / status handlers  *)
(* and the run dispatcher with its two server strategies.                  *)
(*                                                                         *)
(* Python values: an optional value is a tuple, << >> for None and <<v>>   *)
(* for v, so that None, 0 and "" stay distinct (truthiness tells them      *)
(* apart from "present").  An exception is a record [type, args].          *)
(***************************************************************************)
EXTENDS Integers, Sequences, FiniteSets, TLC

VARIABLES
    host, port, debug, log_level, twisted, threads, is_setup, \* instance fields
    hooks,          \* whether the instance's class overrides is_healthy / is_ready
    n_handlers,     \* stream handlers this layer attached to app.logger
    logger_level,   \* app.logger's threshold
    error_logs,     \* records logged at error severity by the handlers
    pc,             \* position of the call in progress ("idle": none)
    op,             \* the operation in progress, or else the one that ended last
    exc,            \* exception that left that operation ("" if none)
    ret,            \* value that operation returned (<< >> if none, or None)
    outcome,        \* what the hook did, when that operation is healthy / ready
    args,           \* argument bundle of the setup call in progress / last resolved
    explicit,       \* was that bundle passed explicitly (TRUE) or parsed (FALSE)
    setups,         \* setup calls made so far
    nonempty,       \* ... of which had a resolved, non-empty log level
    completed,      \* ... of which ran to completion
    calls,          \* calls to the engine / reactor made by the run call in progress
    server          \* arguments of the server that is running (<< >> if none)

vars == <<host, port, debug, log_level, twisted, threads, is_setup, hooks,
          n_handlers, logger_level, error_logs, pc, op, exc, ret, outcome,
          args, explicit, setups, nonempty, completed, calls, server>>

fields == <<host, port, debug, log_level, twisted, threads>>

-----------------------------------------------------------------------------
(* Bounds and input domains *)

MaxSetups == 2

None == << >>
Some(x) == <<x>>

NoExc == ""

\* Listen settings (host, port, debug) of an argument bundle.
Listens ==
    { [host |-> None, port |-> 9050, debug |-> FALSE],
      [host |-> Some("0.0.0.0"), port |-> 8080, debug |-> TRUE],
      [host |-> Some("0.0.0.0"), port |-> 9050, debug |-> FALSE] }
LogLevels == {None, Some(""), Some("INFO"), Some("BOGUS")}
ThreadCounts == {None, Some(-1), Some(0), Some(4)}

Bundles ==
    { [host |-> l.host, port |-> l.port, debug |-> l.debug, log_level |-> ll,
       twisted |-> tw, threads |-> t] :
      l \in Listens, ll \in LogLevels, tw \in BOOLEAN, t \in ThreadCounts }

\* Command lines: which flags are given (None: flag absent) and whether one
\* of them is malformed (e.g. --port abc).
Argvs ==
    { [host |-> None, port |-> None, debug |-> FALSE, log_level |-> None,
       twisted |-> FALSE, threads |-> None, malformed |-> FALSE],
      [host |-> Some("0.0.0.0"), port |-> Some(8080), debug |-> TRUE,
       log_level |-> Some(""), twisted |-> TRUE, threads |-> Some(8),
       malformed |-> FALSE],
      [host |-> None, port |-> None, debug |-> FALSE, log_level |-> Some("DEBUG"),
       twisted |-> TRUE, threads |-> Some(-1), malformed |-> FALSE],
      [host |-> None, port |-> Some(8080), debug |-> FALSE, log_level |-> None,
       twisted |-> FALSE, threads |-> None, malformed |-> TRUE] }

\* Errors a hook may raise.
Errors ==
    { [type |-> "Exception", args |-> <<"db down">>],
      [type |-> "Exception", args |-> << >>],
      [type |-> "RuntimeError", args |-> <<"a", "b">>] }

\* What a hook does in one request.
Outcomes ==
    { [kind |-> "return", value |-> TRUE, error |-> None],
      [kind |-> "return", value |-> FALSE, error |-> None] }
    \cup { [kind |-> "raise", value |-> FALSE, error |-> Some(e)] : e \in Errors }

NoOutcome == [kind |-> "none", value |-> FALSE, error |-> None]

-----------------------------------------------------------------------------
(* Python helpers *)

\* bool(x) of an optional string: None and "" are falsy.
TruthyStr(s) == s # None /\ s[1] # ""

\* bool(x) of an optional integer: None and 0 are falsy.
TruthyInt(n) == n # None /\ n[1] # 0

\* str(e) of an exception: "" without arguments, the argument itself when
\* there is one, the tuple's repr otherwise.
StrOfError(e) ==
    CASE Len(e.args) = 0 -> ""
      [] Len(e.args) = 1 -> e.args[1]
      [] e.args = <<"a", "b">> -> "('a', 'b')"
      [] OTHER -> "(...)"

\* logging.getLevelName(name): the number of a known level name, and the
\* string "Level <name>" (here << >>) for an unknown one.
GetLevelName(name) ==
    CASE name = "CRITICAL" -> Some(50)
      [] name = "ERROR" -> Some(40)
      [] name = "WARNING" -> Some(30)
      [] name = "INFO" -> Some(20)
      [] name = "DEBUG" -> Some(10)
      [] name = "NOTSET" -> Some(0)
      [] OTHER -> None

-----------------------------------------------------------------------------
(* Construction *)

Init ==
    /\ host = Some("127.0.0.1")
    /\ port = 8080
    /\ debug = FALSE
    /\ log_level = None
    /\ twisted = FALSE
    /\ threads = None
    /\ is_setup = FALSE
    /\ hooks \in {"default", "override"}
    /\ n_handlers = 0
    /\ logger_level = 0
    /\ error_logs = 0
    /\ pc = "idle"
    /\ op = "init"
    /\ exc = NoExc
    /\ ret = << >>
    /\ outcome = NoOutcome
    /\ args = None
    /\ explicit = FALSE
    /\ setups = 0
    /\ nonempty = 0
    /\ completed = 0
    /\ calls = << >>
    /\ server = None

-----------------------------------------------------------------------------
(* setup *)

\* ArgumentParser.parse_args() over get_argparser(): an absent flag takes
\* its default (port 9050, log level INFO, the others None / False).
ParseArgs(argv) ==
    [host |-> argv.host,
     port |-> IF argv.port = None THEN 9050 ELSE argv.port[1],
     debug |-> argv.debug,
     log_level |-> IF argv.log_level = None THEN Some("INFO") ELSE argv.log_level,
     twisted |-> argv.twisted,
     threads |-> argv.threads]

\* Variant: an absent host falls back to the constructor's default.
AssignDefaulted(a) ==
    [host |-> IF a.host = None THEN Some("127.0.0.1") ELSE a.host,
     port |-> a.port, debug |-> a.debug, log_level |-> a.log_level,
     twisted |-> a.twisted, threads |-> a.threads]

\* The six assignments of setup: every field takes the bundle's value.
AssignFields(a) ==
    [host |-> a.host, port |-> a.port, debug |-> a.debug,
     log_level |-> a.log_level, twisted |-> a.twisted, threads |-> a.threads]

\* setup(args), up to the call of setup_logging: resolve the bundle (parse the
\* command line when args is None; a malformed command line leaves through
\* SystemExit before anything is assigned) and assign the fields.
SetupEnter(a) ==
    /\ host' = AssignFields(a).host
    /\ port' = AssignFields(a).port
    /\ debug' = AssignFields(a).debug
    /\ log_level' = AssignFields(a).log_level
    /\ twisted' = AssignFields(a).twisted
    /\ threads' = AssignFields(a).threads
    /\ args' = Some(a)
    /\ nonempty' = IF TruthyStr(a.log_level) THEN nonempty + 1 ELSE nonempty
    /\ exc' = NoExc
    /\ pc' = "setup_logging"

SetupExplicit ==
    /\ pc = "idle"
    /\ setups < MaxSetups
    /\ \E b \in Bundles : SetupEnter(b)
    /\ explicit' = TRUE
    /\ op' = "setup"
    /\ setups' = setups + 1
    /\ ret' = << >>
    /\ outcome' = NoOutcome
    /\ UNCHANGED <<is_setup, hooks, n_handlers, logger_level, error_logs,
                   completed, calls, server>>

SetupParsed ==
    /\ pc = "idle"
    /\ setups < MaxSetups
    /\ \E argv \in Argvs :
         IF argv.malformed
         THEN /\ exc' = "SystemExit"
              /\ UNCHANGED <<fields, args, nonempty, pc>>
         ELSE SetupEnter(ParseArgs(argv))
    /\ explicit' = FALSE
    /\ op' = "setup"
    /\ setups' = setups + 1
    /\ ret' = << >>
    /\ outcome' = NoOutcome
    /\ UNCHANGED <<is_setup, hooks, n_handlers, logger_level, error_logs,
                   completed, calls, server>>

\* Variant: a handler is attached whatever the level.
AddHandlerAlways(n, level) == n + 1

\* Handlers on app.logger after setup_logging(level): nothing for an empty
\* or absent level, one more StreamHandler otherwise.

AddHandler(n, level) == IF ~TruthyStr(level) THEN n ELSE n + 1

\* setup_logging(self.log_level).  logger.setLevel(getLevelName(level))
\* raises ValueError for an unknown level name, after the handler was added;
\* the exception leaves setup.
LoggingStep ==
    /\ pc = "setup_logging"
    /\ n_handlers' = AddHandler(n_handlers, log_level)
    /\ IF ~TruthyStr(log_level)
       THEN /\ pc' = "setup_flag"
            /\ UNCHANGED <<logger_level, exc>>
       ELSE IF GetLevelName(log_level[1]) = None
            THEN /\ exc' = "ValueError"
                 /\ pc' = "idle"
                 /\ UNCHANGED logger_level
            ELSE /\ logger_level' = GetLevelName(log_level[1])[1]
                 /\ pc' = "setup_flag"
                 /\ UNCHANGED exc
    /\ UNCHANGED <<fields, hooks, error_logs, op, ret, outcome, args,
                   explicit, setups, nonempty, completed, calls, server>>

\* Variant: the flag is set before logging is initialised.
SetupLoggingFlagFirst == LoggingStep /\ is_setup' = TRUE

\* Line 74 of setup: the flag is not touched before setup_logging returns.
SetupLogging == LoggingStep /\ UNCHANGED is_setup

\* self.is_setup = True, the last statement of setup.
SetupDone ==
    /\ pc = "setup_flag"
    /\ is_setup' = TRUE
    /\ completed' = completed + 1
    /\ pc' = "idle"
    /\ UNCHANGED <<fields, hooks, n_handlers, logger_level, error_logs, op, exc,
                   ret, outcome, args, explicit, setups, nonempty, calls, server>>

-----------------------------------------------------------------------------
(* Handlers *)

\* is_healthy() / is_ready(): the base class returns True; an override does
\* whatever it does.
HookOutcomes(h) ==
    IF h = "default"
    THEN {[kind |-> "return", value |-> TRUE, error |-> None]}
    ELSE Outcomes

\* Variant: the two responses exchanged.
HandlerResponseInverted(v) == IF v THEN <<"FAIL", 500>> ELSE <<"OK", 200>>

\* The try branch of healthy / ready.
HandlerResponse(v) == IF v THEN <<"OK", 200>> ELSE <<"FAIL", 500>>

\* Logger.exception(msg, *args): msg is a required positional argument.
LoggerException(nargs) == IF nargs >= 1 THEN NoExc ELSE "TypeError"

\* healthy / ready: the try / except around the hook.  The except branch
\* calls self.app.logger.exception() without arguments.
Handle(name) ==
    /\ pc \in {"idle", "serving"}
    /\ op' = name
    /\ \E o \in HookOutcomes(hooks) :
         /\ outcome' = o
         /\ IF o.kind = "return"
            THEN /\ ret' = HandlerResponse(o.value)
                 /\ exc' = NoExc
                 /\ UNCHANGED error_logs
            ELSE IF LoggerException(0) # NoExc
                 THEN /\ exc' = LoggerException(0)
                      /\ ret' = << >>
                      /\ UNCHANGED error_logs
                 ELSE /\ error_logs' = error_logs + 1
                      /\ ret' = <<StrOfError(o.error[1]), 500>>
                      /\ exc' = NoExc
    /\ UNCHANGED <<fields, is_setup, hooks, n_handlers, logger_level, pc, args,
                   explicit, setups, nonempty, completed, calls, server>>

Healthy == Handle("healthy")

Ready == Handle("ready")

Status ==
    /\ pc \in {"idle", "serving"}
    /\ op' = "status"
    /\ ret' = <<"status">>
    /\ exc' = NoExc
    /\ outcome' = NoOutcome
    /\ UNCHANGED <<fields, is_setup, hooks, n_handlers, logger_level, error_logs,
                   pc, args, explicit, setups, nonempty, completed,
                   calls, server>>

-----------------------------------------------------------------------------
(* run *)

\* setup(self, args) takes one positional argument besides self; a call
\* with another number of arguments raises TypeError.
SetupCallError(nargs) == IF nargs = 1 THEN NoExc ELSE "TypeError"

\* Variant: the dispatch reversed.
SelectStrategySwapped(tw) == IF tw THEN "run_with_werkzeug" ELSE "run_with_twisted"

\* `if not self.twisted: run_with_werkzeug else: run_with_twisted`
SelectStrategy(tw) == IF ~tw THEN "run_with_werkzeug" ELSE "run_with_twisted"

\* run(**options): `if not self.is_setup: self.setup()`, then the dispatch
\* on self.twisted.
Run ==
    /\ pc = "idle"
    /\ op' = "run"
    /\ calls' = << >>
    /\ IF ~is_setup /\ SetupCallError(0) # NoExc
       THEN /\ exc' = SetupCallError(0)
            /\ pc' = "idle"
       ELSE /\ exc' = NoExc
            /\ pc' = SelectStrategy(twisted)
    /\ ret' = << >>
    /\ outcome' = NoOutcome
    /\ UNCHANGED <<fields, is_setup, hooks, n_handlers, logger_level, error_logs,
                   args, explicit, setups, nonempty, completed,
                   server>>

\* Variant: any thread count that is present counts.
ThreadedIfPresent(t) == t # None

\* threaded = self.threads is not None and (self.threads > 0)

Threaded(t) == t # None /\ t[1] > 0

\* run_with_werkzeug: app.run(host, port, debug, threaded).
RunWithWerkzeug ==
    /\ pc = "run_with_werkzeug"
    /\ calls' = Append(calls, [fn |-> "app.run", arg |-> None])
    /\ server' = Some([kind |-> "werkzeug", host |-> host, port |-> port,
                       debug |-> debug, threaded |-> Some(Threaded(threads))])
    /\ pc' = "serving"
    /\ UNCHANGED <<fields, is_setup, hooks, n_handlers, logger_level, error_logs,
                   op, exc, ret, outcome, args, explicit, setups, nonempty,
                   completed>>

\* Variant: the pool is sized one too large.
PoolCallsOffByOne(t) ==
    IF TruthyInt(t) THEN <<[fn |-> "suggestThreadPoolSize", arg |-> Some(t[1] + 1)]>>
    ELSE << >>

\* `if self.threads: reactor.suggestThreadPoolSize(self.threads)`
PoolCalls(t) ==
    IF TruthyInt(t) THEN <<[fn |-> "suggestThreadPoolSize", arg |-> Some(t[1])]>>
    ELSE << >>

\* `if self.log_level: log.startLogging(sys.stderr)`
LogCalls(l) ==
    IF TruthyStr(l) THEN <<[fn |-> "startLogging", arg |-> None]>> ELSE << >>

\* run_with_twisted: pool size, reactor logging, then twisted.run(host, port, debug).
RunWithTwisted ==
    /\ pc = "run_with_twisted"
    /\ calls' = calls \o PoolCalls(threads) \o LogCalls(log_level)
                      \o <<[fn |-> "twisted.run", arg |-> None]>>
    /\ server' = Some([kind |-> "twisted", host |-> host, port |-> port,
                       debug |-> debug, threaded |-> None])
    /\ pc' = "serving"
    /\ UNCHANGED <<fields, is_setup, hooks, n_handlers, logger_level, error_logs,
                   op, exc, ret, outcome, args, explicit, setups, nonempty,
                   completed>>

\* The server returns when the process is told to stop serving, and run
\* returns to its caller.
Shutdown ==
    /\ pc = "serving"
    /\ server' = None
    /\ pc' = "idle"
    /\ op' = "run"
    /\ exc' = NoExc
    /\ ret' = << >>
    /\ outcome' = NoOutcome
    /\ UNCHANGED <<fields, is_setup, hooks, n_handlers, logger_level, error_logs,
                   args, explicit, setups, nonempty,
                   completed, calls>>

-----------------------------------------------------------------------------

Next ==
    \/ SetupExplicit
    \/ SetupParsed
    \/ SetupLogging
    \/ SetupDone
    \/ Healthy
    \/ Ready
    \/ Status
    \/ Run
    \/ RunWithWerkzeug
    \/ RunWithTwisted
    \/ Shutdown

Spec == Init /\ [][Next]_vars

TypeOK ==
    /\ is_setup \in BOOLEAN
    /\ pc \in {"idle", "setup_logging", "setup_flag", "run_with_werkzeug",
               "run_with_twisted", "serving"}
    /\ setups \in 0..MaxSetups
    /\ n_handlers \in 0..MaxSetups

-----------------------------------------------------------------------------
(* Properties *)

IsRequest == op \in {"healthy", "ready"}

\* The calls of the run call in progress that start a server.
StartCalls == SelectSeq(calls, LAMBDA c : c.fn \in {"app.run", "twisted.run"})

\* A run call has dispatched and has not been followed by another operation.
RunDispatched == pc = "serving" \/ (pc = "idle" /\ op = "run" /\ exc = NoExc)

\* C1: when the hook raises an error E, the healthy / ready handler logs E
\* at error severity and returns (str(E), 500); nothing leaves the handler.
C1_ErrorContained ==
    (IsRequest /\ outcome.kind = "raise") =>
        /\ exc = NoExc
        /\ ret = <<StrOfError(outcome.error[1]), 500>>
        /\ error_logs > 0

\* C2: run on an instance that was never set up performs the implicit setup
\* (is_setup becomes true) and then starts a server; it does not fail, and no
\* server runs while is_setup is false.
C2_ImplicitSetup ==
    /\ op = "run" => (exc = NoExc /\ is_setup)
    /\ server # None => is_setup

\* C3: in healthy and in ready, a hook returning true gives ("OK", 200), a hook
\* returning false gives ("FAIL", 500), and the hooks of the base class always
\* give ("OK", 200), whatever the number of setup calls made before.
C3_HookResponse ==
    IsRequest =>
        /\ (outcome.kind = "return" /\ outcome.value) =>
               (ret = <<"OK", 200>> /\ exc = NoExc)
        /\ (outcome.kind = "return" /\ ~outcome.value) =>
               (ret = <<"FAIL", 500>> /\ exc = NoExc)
        /\ hooks = "default" => (ret = <<"OK", 200>> /\ exc = NoExc)

C3_Witness ==
    /\ op = "ready"
    /\ completed = 2
    /\ outcome.kind = "return"
    /\ ~outcome.value
    /\ ret = <<"FAIL", 500>>

\* C4: once setup has completed, a run call starts exactly one server, the
\* twisted one iff the twisted flag is set and the engine's own otherwise.
C4_OneStrategy ==
    /\ (op = "run" /\ is_setup) => exc = NoExc
    /\ pc = "run_with_werkzeug" => ~twisted
    /\ pc = "run_with_twisted" => twisted
    /\ RunDispatched =>
           /\ Len(StartCalls) = 1
           /\ StartCalls[1].fn = (IF twisted THEN "twisted.run" ELSE "app.run")
    /\ pc = "serving" =>
           /\ is_setup
           /\ server # None
           /\ server[1].kind = (IF twisted THEN "twisted" ELSE "werkzeug")

C4_Witness ==
    /\ pc = "serving"
    /\ twisted
    /\ server # None
    /\ server[1].kind = "twisted"
    /\ Len(calls) >= 1
    /\ calls[Len(calls)].fn = "twisted.run"

\* C5: the engine's server gets threaded = true iff the thread count is
\* present and greater than zero, and host, port and debug as configured.
C5_ThreadedFlag ==
    (server # None /\ server[1].kind = "werkzeug") =>
        /\ threads \in {None, Some(0)} => server[1].threaded = Some(FALSE)
        /\ (threads # None /\ threads[1] < 0) => server[1].threaded = Some(FALSE)
        /\ (threads # None /\ threads[1] >= 1) => server[1].threaded = Some(TRUE)
        /\ server[1].host = host
        /\ server[1].port = port
        /\ server[1].debug = debug

C5_Witness ==
    /\ server # None
    /\ server[1].kind = "werkzeug"
    /\ threads = Some(4)
    /\ server[1].threaded = Some(TRUE)
    /\ server[1].host = Some("0.0.0.0")

\* C6: in the twisted strategy with a positive thread count n, the pool size
\* is requested once, with n, before twisted.run is called.
C6_PoolBeforeStart ==
    (server # None /\ server[1].kind = "twisted" /\ threads # None /\ threads[1] > 0) =>
        \E i \in DOMAIN calls :
            /\ calls[i] = [fn |-> "suggestThreadPoolSize", arg |-> Some(threads[1])]
            /\ \A j \in DOMAIN calls :
                   /\ calls[j].fn = "suggestThreadPoolSize" => j = i
                   /\ calls[j].fn = "twisted.run" => i < j

C6_Witness ==
    /\ server # None
    /\ server[1].kind = "twisted"
    /\ threads = Some(8)
    /\ calls[1] = [fn |-> "suggestThreadPoolSize", arg |-> Some(8)]

\* C7: is_setup is false until a first setup call completes, becomes true
\* only as the last step of a setup call (after logging is initialised), is
\* never reset, and is left alone by a setup call that raises.
C7_FlagLifecycle ==
    /\ is_setup = (completed > 0)
    /\ [][ /\ is_setup' = (completed' > 0)
           /\ is_setup => is_setup'
           /\ is_setup' # is_setup =>
                  (pc = "setup_flag" /\ pc' = "idle" /\ op' = "setup" /\ exc' = NoExc)
           /\ (op' = "setup" /\ exc' # NoExc) => is_setup' = is_setup
           /\ (pc = "setup_flag" /\ pc' = "idle") => is_setup' ]_vars

C7_Witness ==
    /\ op = "setup"
    /\ exc = "ValueError"
    /\ pc = "idle"
    /\ setups = 1
    /\ n_handlers = 1
    /\ ~is_setup

\* C8: when setup(bundle) has returned, is_setup is true and every field has
\* the value of the bundle of that (the last) call.
C8_FieldsMatchBundle ==
    (op = "setup" /\ explicit /\ pc = "idle" /\ exc = NoExc) =>
        /\ is_setup
        /\ host = args[1].host
        /\ port = args[1].port
        /\ debug = args[1].debug
        /\ log_level = args[1].log_level
        /\ twisted = args[1].twisted
        /\ threads = args[1].threads

C8_Witness ==
    /\ op = "setup"
    /\ explicit
    /\ pc = "idle"
    /\ exc = NoExc
    /\ setups = 2
    /\ completed = 2
    /\ args[1].host = None
    /\ host = None
    /\ port = 9050

\* C9: between setup calls, the handlers attached equal the setup calls made
\* with a non-empty log level; a call with an empty level still completes.
C9_HandlerCount ==
    /\ pc # "setup_logging" => n_handlers = nonempty
    /\ (op = "setup" /\ pc = "idle" /\ exc = NoExc /\ ~TruthyStr(log_level)) => is_setup

C9_Witness ==
    /\ pc = "idle"
    /\ setups = 2
    /\ completed = 1
    /\ n_handlers = 2
    /\ nonempty = 2

\* C10: the reactor's pool is resized only for a positive thread count; an
\* absent, zero or negative count never makes the twisted strategy request it.
C10_ResizeOnlyPositive ==
    RunDispatched =>
        \A i \in DOMAIN calls :
            calls[i].fn = "suggestThreadPoolSize" => (threads # None /\ threads[1] > 0)

====
